---- MODULE Spec2Model ----
(***************************************************************************)
(* Model of tools/generate_icons.py: the icon renderer create_eye_icon,    *)
(* the driver main and the top-level __main__ guard.                       *)
(***************************************************************************)
EXTENDS Integers, Sequences, FiniteSets, TLC

\* ------------------------------------------------------------------------
\* Bounds of the exploration
\* ------------------------------------------------------------------------
\* largest edge length explored by the geometry specification
MaxSize == 256
\* number of successive invocations of the program explored
MaxRuns == 2

\* ------------------------------------------------------------------------
\* Constants of the program
\* ------------------------------------------------------------------------
\* main: sizes = [16, 32, 48, 128, 256]
sizes == <<16, 32, 48, 128, 256>>

SizeSet == {sizes[k] : k \in 1..Len(sizes)}

\* smallest supported edge length
MinSize == sizes[1]

\* RGBA colours used by create_eye_icon
TRANSPARENT == <<0, 0, 0, 0>>
GREEN == <<76, 175, 80, 255>>
OUTLINE_GREEN == <<69, 160, 73, 255>>
WHITE == <<255, 255, 255, 255>>

\* absent colour argument (fill=None, outline=None)
None == <<>>

\* ------------------------------------------------------------------------
\* Geometry of create_eye_icon (lines 16-19)
\* ------------------------------------------------------------------------
\* int(size * p/100): the product is positive, int() truncates it, so the
\* result is the integer part of size*p/100
IntOfProduct(size, p) == (size * p) \div 100

\* round-to-nearest of size * p/100 (half rounds up)
RoundOfProduct(size, p) == (2 * size * p + 100) \div 200

center(size) == size \div 2

\* variants: the radius rounded to nearest; the radius taken as 0.55 * size
outer_radius_rounded(size) == RoundOfProduct(size, 45)
outer_radius_large(size) == IntOfProduct(size, 55)
outer_radius(size) == IntOfProduct(size, 45)

\* variant: the iris given the outer ring's proportion
inner_radius_as_outer(size) == IntOfProduct(size, 45)
inner_radius(size) == IntOfProduct(size, 25)

\* variant: the digits of the proportion exchanged (0.21)
pupil_radius_swapped(size) == IntOfProduct(size, 21)
pupil_radius(size) == IntOfProduct(size, 12)

\* ------------------------------------------------------------------------
\* The drawing library as create_eye_icon uses it
\* ------------------------------------------------------------------------
Abs(n) == IF n < 0 THEN -n ELSE n

RECURSIVE GCD(_, _)
GCD(m, n) == IF n = 0 THEN m ELSE GCD(n, m % n)

\* Image.new('RGBA', (size, size), (0, 0, 0, 0)): px[y][x] is the pixel (x, y)
Image_new(size, color) ==
  [w |-> size, h |-> size,
   px |-> [y \in 0..(size - 1) |-> [x \in 0..(size - 1) |-> color]]]

\* deviation of the half-pixel point (x, y) from the ellipse with axes a, b:
\* |a^2 y^2 + b^2 x^2 - a^2 b^2|, with the common factor gcd(a, b)^2 of the
\* three terms divided out (the comparisons made on it are unchanged)
quarter_delta(a, b, x, y) ==
  LET g == IF GCD(a, b) = 0 THEN 1 ELSE GCD(a, b)
      ra == a \div g
      rb == b \div g
  IN  Abs(ra * ra * y * y + rb * rb * x * x - ra * ra * b * b)

\* the point that follows (cx, cy) on the quarter arc: of the three
\* neighbours the one that deviates least, the earlier one on a tie
quarter_step(a, b, cx, cy) ==
  LET d0 == quarter_delta(a, b, cx, cy + 2)
      d1 == quarter_delta(a, b, cx - 2, cy + 2)
      d2 == quarter_delta(a, b, cx - 2, cy)
  IN  IF cx > 1
      THEN IF d0 > d1
           THEN IF d1 > d2 THEN <<cx - 2, cy>> ELSE <<cx - 2, cy + 2>>
           ELSE IF d0 > d2 THEN <<cx - 2, cy>> ELSE <<cx, cy + 2>>
      ELSE <<cx, cy + 2>>

\* one call of quarter_next: the arc so far, extended by the point after its
\* last one, unless that last point is the arc's end (a % 2, b)
quarter_next(a, b, pts) ==
  LET p == pts[Len(pts)]
  IN  IF p[1] = a % 2 /\ p[2] = b
      THEN pts
      ELSE Append(pts, quarter_step(a, b, p[1], p[2]))

\* n successive calls of quarter_next
RECURSIVE quarter_run(_, _, _, _)
quarter_run(a, b, pts, n) ==
  IF n = 0 THEN pts
  ELSE IF n = 1 THEN quarter_next(a, b, pts)
  ELSE LET half == quarter_run(a, b, pts, n \div 2)
       IN  IF Len(half) = 0 THEN half
           ELSE quarter_run(a, b, half, n - n \div 2)

\* the points of the first-quadrant arc, from (a, b % 2) to (a % 2, b); every
\* step moves by two half-pixels on an axis at least, so a + b calls reach
\* the end
quarter(a, b) ==
  IF a < 0 \/ b < 0
  THEN <<>>
  ELSE quarter_run(a, b, << <<a, b % 2>> >>, a + b)

\* the columns of the arc's points on row y
arc_row(pts, y) == {pts[k][1] : k \in {j \in 1..Len(pts) : pts[j][2] = y}}

SetMax(S) == CHOOSE m \in S : \A e \in S : e <= m
SetMin(S) == CHOOSE m \in S : \A e \in S : m <= e

\* one <<l, r, y>> per row of the quadrant: r the outer arc's first (largest)
\* column of the row, l the inner arc's last (smallest) column of the row, or
\* the leftmost column when the inner arc has no point on the row
ellipse_rows(o, q, leftmost) ==
  { <<IF arc_row(q, y) = {} THEN leftmost ELSE SetMin(arc_row(q, y)),
      SetMax(arc_row(o, y)), y>> : y \in {o[k][2] : k \in 1..Len(o)} }

\* the horizontal spans <<x0, x1, y>> one row of the quadrant stands for
row_spans(l, r, y) ==
  LET ll == IF l = 0 THEN 2 ELSE l
  IN  (IF (l > 0 \/ l < r) /\ y > 0 THEN { <<ll, r, y>> } ELSE {}) \cup
      (IF y > 0 THEN { <<-r, -l, y>> } ELSE {}) \cup
      (IF l > 0 \/ l < r THEN { <<ll, r, -y>> } ELSE {}) \cup
      { <<-r, -l, -y>> }

\* the rows of the ellipse with axes a, b and border width w
ellipse_state(a, b, w) ==
  LET o == quarter(a, b)
      q == quarter(a - 2 * (w - 1), b - 2 * (w - 1))
  IN  IF w < 1 \/ Len(o) = 0
      THEN {}
      ELSE ellipse_rows(o, q, a % 2)

\* hline(im, x0, y0, x1, ink) paints the pixels x0..x1 of row y0, clipped to
\* the image: whether it paints the pixel (x, y) of the image
hline(im, x0, y0, x1, x, y) ==
  LET lo == IF x0 > x1 THEN x1 ELSE x0
      hi == IF x0 > x1 THEN x0 ELSE x1
      from == IF lo < 0 THEN 0 ELSE lo
      to == IF hi >= im.w THEN im.w - 1 ELSE hi
  IN  /\ y0 >= 0 /\ y0 < im.h /\ lo < im.w /\ hi >= 0
      /\ y = y0 /\ from <= x /\ x <= to

\* the library's ellipse primitive on the bounding box xy = <<x0,y0,x1,y1>>:
\* one hline with the same ink for every span of the ellipse, so that a pixel
\* ends with the ink when some span's hline paints it and is unchanged
\* otherwise
draw_ellipse(im, xy, ink, fill, width) ==
  LET x0 == xy[1]
      y0 == xy[2]
      a == xy[3] - xy[1]
      b == xy[4] - xy[2]
      w == IF fill THEN a + b ELSE width
      rows == ellipse_state(a, b, w)
      spans == UNION {row_spans(r[1], r[2], r[3]) : r \in rows}
  IN  IF a < 0 \/ b < 0
      THEN im
      ELSE [im EXCEPT !.px =
             [y \in 0..(im.h - 1) |->
                LET old == im.px[y]
                    here == {s \in spans : y0 + (s[3] + b) \div 2 = y}
                IN  [x \in 0..(im.w - 1) |->
                       IF \E s \in here :
                             hline(im, x0 + (s[1] + a) \div 2,
                                   y0 + (s[3] + b) \div 2,
                                   x0 + (s[2] + a) \div 2, x, y)
                       THEN ink
                       ELSE old[x]]]]

\* draw.ellipse(xy, fill=..., outline=..., width=...): the filled ellipse,
\* then its border when an outline colour other than the fill is given
ellipse(im, xy, fill, outline, width) ==
  LET filled == IF fill # None THEN draw_ellipse(im, xy, fill, TRUE, 0) ELSE im
  IN  IF outline # None /\ outline # fill /\ width # 0
      THEN draw_ellipse(filled, xy, outline, FALSE, width)
      ELSE filled

\* the bounding box [center - r, center - r, center + r, center + r]
bbox(c, r) == <<c - r, c - r, c + r, c + r>>

\* ------------------------------------------------------------------------
\* create_eye_icon (lines 9-44)
\* ------------------------------------------------------------------------
\* variant: the pupil drawn before the iris
create_eye_icon_reordered(size) ==
  LET img == Image_new(size, TRANSPARENT)
      c == center(size)
      d1 == ellipse(img, bbox(c, outer_radius(size)), GREEN, OUTLINE_GREEN, 1)
      d2 == ellipse(d1, bbox(c, pupil_radius(size)), GREEN, None, 1)
      d3 == ellipse(d2, bbox(c, inner_radius(size)), WHITE, None, 1)
  IN  d3

create_eye_icon(size) ==
  LET img == Image_new(size, TRANSPARENT)
      c == center(size)
      d1 == ellipse(img, bbox(c, outer_radius(size)), GREEN, OUTLINE_GREEN, 1)
      d2 == ellipse(d1, bbox(c, inner_radius(size)), WHITE, None, 1)
      d3 == ellipse(d2, bbox(c, pupil_radius(size)), GREEN, None, 1)
  IN  d3


\* ------------------------------------------------------------------------
\* State
\* ------------------------------------------------------------------------
VARIABLES
  pillow,    \* environment: whether `from PIL import ...` (line 7) succeeds
  pc,        \* position of the program
  i,         \* main: index in sizes of the size being processed
  icon,      \* main: the canvas returned by create_eye_icon
  files,     \* the working directory: file name -> stored canvas
  output,    \* the console: the lines printed by this run
  status,    \* the exit status of the run, "running" until it ends
  run,       \* number of the current invocation of the program
  written,   \* history: the save calls completed by this run
  fs0,       \* history: the working directory when this run started
  raised,    \* history: the exception a call of main raised, "none" if none
  geom       \* create_eye_icon's locals size, center and the three radii

vars == <<pillow, pc, i, icon, files, output, status, run, written, fs0, raised, geom>>

driver_vars == <<pillow, pc, i, icon, files, output, status, run, written, fs0, raised>>

\* ------------------------------------------------------------------------
\* Console and file names
\* ------------------------------------------------------------------------
\* f'icon_{size}.png'
Filename(size) == "icon_" \o ToString(size) \o ".png"

\* print(text): the lines of text (text split at its newlines) are appended
\* to the console
print(out, lines) == out \o lines

\* f'Created {filename}'
CreatedLine(filename) == <<"Created " \o filename>>

\* lines 56-57: '\nIcons generated successfully!' is an empty line and a text
\* line
CompletionLines ==
  <<"", "Icons generated successfully!">> \o
  <<"You can now load the extension in Chrome.">>

\* lines 63-65
GuidanceLines ==
  <<"Error: Pillow library not installed.">> \o
  <<"Install it with: pip install Pillow">> \o
  <<"", "Alternatively, create the PNG icons manually using any image editor.">>

\* failures a call made by main can raise
Exceptions == {"ImportError", "OSError"}

NoIcon == [w |-> 0, h |-> 0, px |-> <<>>]

NoFiles == <<>>

\* a file left by something other than this program
StaleIcon == Image_new(1, WHITE)

\* working directories a run can start in: no icon file, or stale files
\* under the names of the first m sizes
PriorFiles ==
  { [n \in {Filename(sizes[k]) : k \in 1..m} |-> StaleIcon] :
      m \in {0, 2, Len(sizes)} }

\* ------------------------------------------------------------------------
\* The program
\* ------------------------------------------------------------------------
Init ==
  /\ pillow \in BOOLEAN
  /\ pc = "import"
  /\ i = 1
  /\ icon = NoIcon
  /\ files \in PriorFiles
  /\ fs0 = files
  /\ output = <<>>
  /\ status = "running"
  /\ run = 1
  /\ written = <<>>
  /\ raised = "none"
  /\ geom = [size |-> 0, center |-> 0, outer_radius |-> 0,
             inner_radius |-> 0, pupil_radius |-> 0, done |-> FALSE]

\* line 7, then lines 59-61: the import runs before the try statement is
\* entered, so its failure is not caught by `except ImportError`
Import ==
  /\ pc = "import"
  /\ IF pillow
     THEN pc' = "render" /\ status' = status
     ELSE pc' = "crashed" /\ status' = 1
  /\ i' = 1
  /\ UNCHANGED <<pillow, icon, files, output, run, written, fs0, raised, geom>>

\* variant: the handler catches every exception
Raise_catch_all(e) ==
  /\ output' = print(output, GuidanceLines)
  /\ pc' = "guided"
  /\ status' = 0

\* lines 59-65: an exception leaving main() reaches the try statement;
\* ImportError is caught and answered with the guidance, anything else
\* propagates and ends the process with a failure status
Raise(e) ==
  IF e = "ImportError"
  THEN /\ output' = print(output, GuidanceLines)
       /\ pc' = "guided"
       /\ status' = 0
  ELSE /\ output' = output
       /\ pc' = "crashed"
       /\ status' = 1

\* line 51: icon = create_eye_icon(size)
Render ==
  /\ pc = "render"
  /\ icon' = create_eye_icon(sizes[i])
  /\ pc' = "save"
  /\ UNCHANGED <<pillow, i, files, output, status, run, written, fs0, raised, geom>>

\* line 51 raising
RenderRaise ==
  /\ pc = "render"
  /\ \E e \in Exceptions : raised' = e /\ Raise(e)
  /\ UNCHANGED <<pillow, i, icon, files, run, written, fs0, geom>>

\* variant: every invocation writes under a name of its own
Save_numbered ==
  /\ pc = "save"
  /\ LET filename == Filename(sizes[i]) \o "." \o ToString(run)
     IN  /\ files' = (filename :> icon) @@ files
         /\ written' = Append(written, [name |-> filename, data |-> icon])
  /\ pc' = "print"
  /\ UNCHANGED <<pillow, i, icon, output, status, run, fs0, raised, geom>>

\* lines 52-53: icon.save(filename, 'PNG') creates or overwrites the file
Save ==
  /\ pc = "save"
  /\ LET filename == Filename(sizes[i])
     IN  /\ files' = (filename :> icon) @@ files
         /\ written' = Append(written, [name |-> filename, data |-> icon])
  /\ pc' = "print"
  /\ UNCHANGED <<pillow, i, icon, output, status, run, fs0, raised, geom>>

\* line 53 raising: nothing is stored
SaveRaise ==
  /\ pc = "save"
  /\ \E e \in Exceptions : raised' = e /\ Raise(e)
  /\ UNCHANGED <<pillow, i, icon, files, run, written, fs0, geom>>

\* variant: the loop leaves one size early
PrintCreated_early ==
  /\ pc = "print"
  /\ output' = print(output, CreatedLine(Filename(sizes[i])))
  /\ IF i < Len(sizes) - 1
     THEN i' = i + 1 /\ pc' = "render"
     ELSE i' = i /\ pc' = "finish"
  /\ UNCHANGED <<pillow, icon, files, status, run, written, fs0, raised, geom>>

\* line 54, then back to line 50 for the next size
PrintCreated ==
  /\ pc = "print"
  /\ output' = print(output, CreatedLine(Filename(sizes[i])))
  /\ IF i < Len(sizes)
     THEN i' = i + 1 /\ pc' = "render"
     ELSE i' = i /\ pc' = "finish"
  /\ UNCHANGED <<pillow, icon, files, status, run, written, fs0, raised, geom>>

\* lines 56-57, main returns and the process ends with status 0
Finish ==
  /\ pc = "finish"
  /\ output' = print(print(output, <<"", "Icons generated successfully!">>),
                     <<"You can now load the extension in Chrome.">>)
  /\ pc' = "done"
  /\ status' = 0
  /\ UNCHANGED <<pillow, i, icon, files, run, written, fs0, raised, geom>>

\* the program is invoked again in the directory the completed run left
Restart ==
  /\ pc = "done"
  /\ run < MaxRuns
  /\ run' = run + 1
  /\ pc' = "import"
  /\ i' = 1
  /\ icon' = NoIcon
  /\ output' = <<>>
  /\ status' = "running"
  /\ written' = <<>>
  /\ raised' = "none"
  /\ fs0' = files
  /\ UNCHANGED <<pillow, files, geom>>

Next ==
  \/ Import
  \/ Render
  \/ RenderRaise
  \/ Save
  \/ SaveRaise
  \/ PrintCreated
  \/ Finish
  \/ Restart

Spec == Init /\ [][Next]_vars

\* ------------------------------------------------------------------------
\* The geometry of create_eye_icon on its own, for every edge length from
\* the smallest supported size to MaxSize
\* ------------------------------------------------------------------------
GeomInit ==
  /\ pillow = TRUE
  /\ pc = "geometry"
  /\ i = 1
  /\ icon = NoIcon
  /\ files = NoFiles
  /\ fs0 = NoFiles
  /\ output = <<>>
  /\ status = "running"
  /\ run = 1
  /\ written = <<>>
  /\ raised = "none"
  /\ \E size \in MinSize..MaxSize :
       geom = [size |-> size, center |-> 0, outer_radius |-> 0,
               inner_radius |-> 0, pupil_radius |-> 0, done |-> FALSE]

\* lines 16-19
Geometry ==
  /\ pc = "geometry"
  /\ ~geom.done
  /\ geom' = [size |-> geom.size,
              center |-> center(geom.size),
              outer_radius |-> outer_radius(geom.size),
              inner_radius |-> inner_radius(geom.size),
              pupil_radius |-> pupil_radius(geom.size),
              done |-> TRUE]
  /\ UNCHANGED driver_vars

GeomNext == Geometry

SpecGeom == GeomInit /\ [][GeomNext]_vars

\* ------------------------------------------------------------------------
\* Properties
\* ------------------------------------------------------------------------
Sq(n) == n * n

\* the 'Created ...' lines of the first n sizes
CreatedLines(n) == [k \in 1..n |-> "Created " \o Filename(sizes[k])]

IconNames == {Filename(sizes[k]) : k \in 1..Len(sizes)}

\* the file under name is the same in the directories f and g
SameFile(f, g, name) ==
  /\ (name \in DOMAIN f) <=> (name \in DOMAIN g)
  /\ name \in DOMAIN f => f[name] = g[name]

\* C1, as stated: for every supported size the geometry is center = s / 2
\* by integer division and each radius is the proportion rounded to nearest.
C1_RoundedRadii ==
  (geom.done /\ geom.size \in SizeSet) =>
     /\ geom.center = geom.size \div 2
     /\ geom.outer_radius = RoundOfProduct(geom.size, 45)
     /\ geom.inner_radius = RoundOfProduct(geom.size, 25)
     /\ geom.pupil_radius = RoundOfProduct(geom.size, 12)

\* C1, amended: for every supported size the center is half the size and
\* each radius is the proportion truncated, that is the largest integer not
\* above s * 0.45, s * 0.25 and s * 0.12.
C1_TruncatedRadii ==
  (geom.done /\ geom.size \in SizeSet) =>
     /\ 2 * geom.center = geom.size
     /\ 100 * geom.outer_radius <= 45 * geom.size
     /\ 45 * geom.size < 100 * (geom.outer_radius + 1)
     /\ 100 * geom.inner_radius <= 25 * geom.size
     /\ 25 * geom.size < 100 * (geom.inner_radius + 1)
     /\ 100 * geom.pupil_radius <= 12 * geom.size
     /\ 12 * geom.size < 100 * (geom.pupil_radius + 1)

\* size 48, where truncation (21) and rounding (22) differ
C1_Witness ==
  geom.done /\ geom.size = 48 /\ geom.outer_radius = 21 /\ geom.center = 24

\* C2: when the drawing library cannot be imported at program start, the
\* program prints the guidance message, creates no file and ends without an
\* unhandled failure.
C2_GuidanceOnMissingLibrary ==
  (~pillow /\ pc # "import") =>
     /\ output = GuidanceLines
     /\ files = fs0
     /\ status = 0
     /\ pc = "guided"

\* the files and canvas sizes a complete run leaves
C3_Files ==
  /\ DOMAIN files = {"icon_16.png", "icon_32.png", "icon_48.png",
                     "icon_128.png", "icon_256.png"}
  /\ \A s \in SizeSet :
       LET f == files[Filename(s)]
       IN  /\ f.w = s /\ f.h = s
           /\ DOMAIN f.px = 0..(s - 1)
           /\ \A y \in 0..(s - 1) : DOMAIN f.px[y] = 0..(s - 1)

C3_CreatedLines ==
  <<"Created icon_16.png", "Created icon_32.png", "Created icon_48.png",
    "Created icon_128.png", "Created icon_256.png">>

\* C3, as stated: a failure-free run started with no icon file ends with
\* exactly the five files, icon_<s>.png holding an s x s canvas, and its
\* console output is exactly the five 'Created' lines followed by the two
\* completion lines.
C3_FiveFilesSevenLines ==
  (pc = "done" /\ run = 1 /\ DOMAIN fs0 = {}) =>
     /\ C3_Files
     /\ output = C3_CreatedLines \o
                 <<"Icons generated successfully!",
                   "You can now load the extension in Chrome.">>

\* C3, amended: the same, with the console output being the five 'Created'
\* lines, then an empty line, then the two completion lines.
C3_FiveFilesBlankLine ==
  (pc = "done" /\ run = 1 /\ DOMAIN fs0 = {}) =>
     /\ C3_Files
     /\ output = C3_CreatedLines \o
                 <<"", "Icons generated successfully!",
                   "You can now load the extension in Chrome.">>

C3_Witness ==
  pc = "done" /\ run = 1 /\ DOMAIN fs0 = {} /\ Len(written) = 5

\* C4: for every size from 16 up, outer radius > iris radius > pupil radius.
C4_RadiiOrdered ==
  geom.done =>
     /\ geom.outer_radius > geom.inner_radius
     /\ geom.inner_radius > geom.pupil_radius

C4_Witness ==
  /\ geom.done /\ geom.size = MinSize
  /\ geom.outer_radius = 7 /\ geom.inner_radius = 4 /\ geom.pupil_radius = 1

\* C5, as stated: in a rendered icon the center pixel has the pupil colour
\* and every pixel whose distance from the center is strictly between the
\* pupil radius and the iris radius has the iris colour.
C5_RingIsIris ==
  pc = "save" =>
     LET s == sizes[i]
         c == center(s)
     IN  /\ icon.px[c][c] = GREEN
         /\ \A y \in 0..(s - 1), x \in 0..(s - 1) :
              ( /\ Sq(x - c) + Sq(y - c) > Sq(pupil_radius(s))
                /\ Sq(x - c) + Sq(y - c) < Sq(inner_radius(s)) )
              => icon.px[y][x] = WHITE

\* C5, amended: the center pixel has the pupil colour and every pixel whose
\* distance from the center is at least the pupil radius plus one and
\* strictly less than the iris radius has the iris colour.
C5_RingBeyondPupilEdgeIsIris ==
  pc = "save" =>
     LET s == sizes[i]
         c == center(s)
     IN  /\ icon.px[c][c] = GREEN
         /\ \A y \in 0..(s - 1), x \in 0..(s - 1) :
              ( /\ Sq(x - c) + Sq(y - c) >= Sq(pupil_radius(s) + 1)
                /\ Sq(x - c) + Sq(y - c) < Sq(inner_radius(s)) )
              => icon.px[y][x] = WHITE

\* size 32 rendered: the pupil's edge pixel (3, 1) off the center, at
\* distance sqrt(10) > 3, is green; the pixel (4, 0) off the center is white
C5_Witness ==
  /\ pc = "save" /\ sizes[i] = 32
  /\ icon.px[16][16] = GREEN
  /\ icon.px[17][19] = GREEN
  /\ icon.px[16][20] = WHITE

C7_WithinOnePixel ==
  (geom.done /\ geom.size \in SizeSet) =>
     /\ Abs(100 * geom.outer_radius - 45 * geom.size) < 100
     /\ Abs(100 * geom.inner_radius - 25 * geom.size) < 100
     /\ Abs(100 * geom.pupil_radius - 12 * geom.size) < 100

C7_Witness ==
  geom.done /\ geom.size = 256 /\ geom.pupil_radius = 30

\* C8: the sizes are processed in the order of the list, one at a time: the
\* files written so far are those of a prefix of the list, the 'Created'
\* line of a size is printed after its file is written and before the next
\* size is rendered, and the completion lines are printed only after all
\* five files are written.
C8_InOrder ==
  LET n == Len(written)
      printed == IF pc \in {"print"} THEN n - 1 ELSE n
  IN  /\ n <= Len(sizes)
      /\ \A k \in 1..n : written[k].name = Filename(sizes[k])
      /\ pc \in {"render", "save"} => n = i - 1
      /\ pc = "print" => n = i
      /\ pc \in {"import", "render", "save", "print", "finish", "crashed"}
           => output = CreatedLines(printed)
      /\ pc = "guided" => output = CreatedLines(printed) \o GuidanceLines
      /\ pc = "done" => /\ n = Len(sizes)
                        /\ output = CreatedLines(n) \o CompletionLines
      /\ pc = "finish" => n = Len(sizes)

C8_Witness ==
  /\ pc = "render" /\ i = 4 /\ Len(written) = 3
  /\ output = <<"Created icon_16.png", "Created icon_32.png",
                "Created icon_48.png">>

\* the state a run is left in by a failure other than ImportError at size i
C9_AtFailure ==
  raised \notin {"none", "ImportError"} =>
     /\ pc = "crashed"
     /\ status = 1
     /\ Len(written) = i - 1
     /\ \A k \in 1..(i - 1) :
          /\ written[k].name = Filename(sizes[k])
          /\ files[Filename(sizes[k])] = written[k].data
     /\ \A k \in i..Len(sizes) : SameFile(files, fs0, Filename(sizes[k]))
     /\ output = CreatedLines(i - 1)

C10_OutsideBoxTransparent ==
  pc = "save" =>
     LET s == sizes[i]
         lo == center(s) - outer_radius(s)
         hi == center(s) + outer_radius(s)
     IN  /\ lo >= 0
         /\ hi <= s - 1
         /\ icon.px[0][0] = TRANSPARENT
         /\ \A y \in 0..(s - 1), x \in 0..(s - 1) :
              (x < lo \/ x > hi \/ y < lo \/ y > hi)
              => icon.px[y][x] = TRANSPARENT

\* size 16 rendered: column 0 is outside the box [1, 15], the box's edge
\* pixel (8, 1) is painted
C10_Witness ==
  /\ pc = "save" /\ sizes[i] = 16
  /\ icon.px[8][0] = TRANSPARENT
  /\ icon.px[1][8] # TRANSPARENT

====
